---- MODULE Spec2Model ----
(***************************************************************************)
(* A model of DNMFX's preprocessing (src/dnmfx/preprocess.py), grouping    *)
(* (src/dnmfx/groups.py) and loss (src/dnmfx/loss.py).                     *)
(*                                                                         *)
(* Bounding boxes are funlib.geometry.Roi values: an integer offset and an *)
(* integer shape per dimension.  Components, overlap lists and frames keep *)
(* the zero-based indices of the source.                                   *)
(***************************************************************************)
EXTENDS Integers, Sequences, FiniteSets, TLC

VARIABLES
    \* preprocess.py and groups.py
    bounding_boxes,                  \* dataset.bounding_boxes
    component_descriptions,          \* the components with their overlap lists
    G,                               \* the overlap graph
    groups,                          \* the connected components, in order
    component_group_index_pairings,  \* component index -> group index
    pc,                              \* where get_groups is
    err,                             \* the exception that ended get_groups
    \* loss.py: the arguments of l2_loss, its locals and its result
    H_logits, W_logits, B_logits, x, component_description, frame_indices,
    l1_weight, components, traces,
    x_hat, loss, lpc, lerr

groupVars == <<bounding_boxes, component_descriptions, G, groups,
               component_group_index_pairings, pc, err>>

lossVars == <<H_logits, W_logits, B_logits, x, component_description,
              frame_indices, l1_weight, components, traces,
              x_hat, loss, lpc, lerr>>

vars == <<groupVars, lossVars>>

(***************************************************************************)
(* Bounds of the model.                                                    *)
(***************************************************************************)
\* the largest number of bounding boxes in a dataset
MaxN == 3
\* coordinates of the boxes lie in 0..MaxCoord
MaxCoord == 6
\* the longest extent of a box that may sit anywhere; longer boxes begin at 0
MaxSmall == 2

\* the datasets are two-dimensional: fg.Roi((x_b, y_b), (x_e-x_b, y_e-y_b))
Dims == 2

None == "None"

(***************************************************************************)
(* funlib.geometry.Roi, as far as preprocess.py and loss.py use it.        *)
(***************************************************************************)
DimSet == 1..Dims

Roi(offset, shape) == [offset |-> offset, shape |-> shape]

RoiBegin(r) == r.offset

RoiEnd(r) == [d \in DimSet |-> r.offset[d] + r.shape[d]]

\* Roi.size: the product of the shape
RoiSize(r) == r.shape[1] * r.shape[2]

\* Roi.empty
RoiEmpty(r) == RoiSize(r) = 0

\* Roi.center: offset + shape / 2.  The quotient is a funlib Coordinate,
\* whose entries are integers: the half of an odd extent is cut down.
RoiCenter(r) == [d \in DimSet |-> r.offset[d] + (r.shape[d] \div 2)]

\* Roi.intersects: empty boxes intersect nothing; otherwise the boxes
\* intersect unless some dimension separates them
RoiIntersects(a, b) ==
    IF RoiEmpty(a) \/ RoiEmpty(b) THEN FALSE
    ELSE ~ \E d \in DimSet :
             \/ RoiBegin(a)[d] >= RoiEnd(b)[d]
             \/ RoiBegin(b)[d] >= RoiEnd(a)[d]

(***************************************************************************)
(* preprocess.py                                                           *)
(***************************************************************************)
\* Component.__init__
Component(bounding_box, component_index) ==
    [bounding_box |-> bounding_box,
     index |-> component_index,
     overlapping_components |-> << >>]

\* construct_components: one component per box, indexed by input order
construct_components(boxes) ==
    [i \in 0..(Len(boxes) - 1) |-> Component(boxes[i + 1], i)]

\* get_diagonal_length, squared: sum((end - begin)**2).  The source takes the
\* square root; the model keeps the square and compares squares in InBall.
diagonal_length_squared(component) ==
    LET begin == RoiBegin(component.bounding_box)
        end == RoiEnd(component.bounding_box)
    IN  (end[1] - begin[1]) * (end[1] - begin[1])
        + (end[2] - begin[2]) * (end[2] - begin[2])

\* squared Euclidean distance between two points
DistSq(p, q) ==
    (p[1] - q[1]) * (p[1] - q[1]) + (p[2] - q[2]) * (p[2] - q[2])

\* dist <= sqrt(diagSq) + 1, in integers:
\* distSq - diagSq - 1 <= 2 * sqrt(diagSq)
InBall(distSq, diagSq) ==
    LET k == distSq - diagSq - 1
    IN  k <= 0 \/ k * k <= 4 * diagSq

\* the radius of the proximity query: get_diagonal_length(component) + 1,
\* as the predicate "a point at squared distance distSq is within it"
WithinQueryRadius(component, distSq) ==
    InBall(distSq, diagonal_length_squared(component))

\* spatial.KDTree(component_centers): the points, by component index
KDTree(comps) ==
    [i \in DOMAIN comps |-> RoiCenter(comps[i].bounding_box)]

\* kd_tree.query_ball_point(center, r): the indices of the points at a
\* distance of at most r from the component's center
query_ball_point(kd_tree, component) ==
    {i \in DOMAIN kd_tree :
        WithinQueryRadius(component,
            DistSq(kd_tree[i], RoiCenter(component.bounding_box)))}

\* the members of a set of integers as a sequence in increasing order: the
\* order in which a KD-tree of a single leaf reports its points
RECURSIVE SortedSeq(_)
SortedSeq(S) ==
    IF S = {} THEN << >>
    ELSE LET m == CHOOSE e \in S : \A y \in S : e <= y
         IN  <<m>> \o SortedSeq(S \ {m})

\* find_overlapping_components: of the close components, those that are not
\* the component itself and whose box intersects the component's box
find_overlapping_components(component, comps, kd_tree) ==
    LET close_component_indices == query_ball_point(kd_tree, component)
        keep(i) ==
            /\ comps[i].index # component.index
            /\ RoiIntersects(comps[i].bounding_box, component.bounding_box)
    IN  SortedSeq({i \in close_component_indices : keep(i)})

\* create_components after the KD-tree is built: every component gets its
\* list of overlapping components (by index)
create_components(boxes) ==
    LET comps == construct_components(boxes)
        kd_tree == KDTree(comps)
        overlaps == [i \in DOMAIN comps |->
                        find_overlapping_components(comps[i], comps, kd_tree)]
    IN  [i \in DOMAIN comps |->
            [comps[i] EXCEPT !.overlapping_components = overlaps[i]]]

(***************************************************************************)
(* groups.py                                                               *)
(***************************************************************************)
SeqToSet(s) == {s[k] : k \in DOMAIN s}

\* BuildGraph with an edge taken only from the overlap list of its lower end
BuildGraphUpper(comps) ==
    [nodes |-> DOMAIN comps,
     edges |-> UNION {{{i, j} : j \in {o \in SeqToSet(comps[i].overlapping_components) : o > i}} :
                        i \in DOMAIN comps}]

\* G.add_nodes_from(...), G.add_edges_from(...): an undirected graph, one edge
\* per unordered pair
BuildGraph(comps) ==
    [nodes |-> DOMAIN comps,
     edges |-> UNION {{{i, j} : j \in SeqToSet(comps[i].overlapping_components)} :
                        i \in DOMAIN comps}]

Neighbours(graph, S) ==
    {v \in graph.nodes : \E u \in S : {u, v} \in graph.edges}

\* networkx _plain_bfs: the nodes reachable from those of S
RECURSIVE PlainBfs(_, _)
PlainBfs(graph, S) ==
    LET T == S \cup Neighbours(graph, S)
    IN  IF T = S THEN S ELSE PlainBfs(graph, T)

\* connected_components that forgets which nodes it has seen
RECURSIVE connected_components_unseen(_, _, _)
connected_components_unseen(graph, v, seen) ==
    IF v \notin graph.nodes THEN << >>
    ELSE <<PlainBfs(graph, {v})>> \o connected_components_unseen(graph, v + 1, seen)

\* nx.connected_components: the nodes in insertion order; each node not seen
\* yet yields the component it reaches
RECURSIVE connected_components(_, _, _)
connected_components(graph, v, seen) ==
    IF v \notin graph.nodes THEN << >>
    ELSE IF v \in seen THEN connected_components(graph, v + 1, seen)
    ELSE LET c == PlainBfs(graph, {v})
         IN  <<c>> \o connected_components(graph, v + 1, seen \cup c)

\* GroupIndexPairings that counts the groups from one
GroupIndexPairingsFromOne(grps) ==
    LET members == UNION SeqToSet(grps)
    IN  [i \in members |->
            CHOOSE g \in DOMAIN grps :
                /\ i \in grps[g]
                /\ \A h \in DOMAIN grps : i \in grps[h] => h <= g]

\* component_group_index_pairings: every member's index maps to the position
\* of its group (zero-based); a later group overwrites an earlier one
GroupIndexPairings(grps) ==
    LET members == UNION SeqToSet(grps)
    IN  [i \in members |->
            (CHOOSE g \in DOMAIN grps :
                /\ i \in grps[g]
                /\ \A h \in DOMAIN grps : i \in grps[h] => h <= g) - 1]

(***************************************************************************)
(* loss.py.  Arrays are a shape and their elements in row-major order, so  *)
(* that reshape keeps the elements and changes the shape.  Values are in   *)
(* fixed point: sigmoid in tenths, the reconstruction in hundredths.       *)
(***************************************************************************)
Array(shape, flat) == [shape |-> shape, flat |-> flat]

\* None where an array is expected, and where a patch is expected
NoArray == Array(<< >>, << >>)
NoPatch == << >>

\* len(a.shape)
NDim(a) == Len(a.shape)

RECURSIVE Product(_)
Product(s) == IF s = << >> THEN 1 ELSE Head(s) * Product(Tail(s))

\* a.reshape(-1, *shape): the first dimension is what the size leaves
Reshape(a, shape) ==
    Array(<<Product(a.shape) \div Product(shape)>> \o shape, a.flat)

\* a[j, p] of a 2-D array
Get2(a, j, p) == a.flat[j * a.shape[2] + p]

\* a[j, r, c] of a 3-D array
Get3(a, j, r, c) == a.flat[(j * a.shape[2] + r) * a.shape[3] + c]

\* utils.sigmoid on the logits -2..2, in tenths (0.12, 0.27, 0.5, 0.73, 0.88)
sigmoid(v) ==
    CASE v = -2 -> 1
      [] v = -1 -> 3
      [] v = 0 -> 5
      [] v = 1 -> 7
      [] v = 2 -> 9

Max(a, b) == IF a >= b THEN a ELSE b
Min(a, b) == IF a <= b THEN a ELSE b

\* Roi.intersect: the empty Roi when the boxes do not intersect
RoiIntersect(a, b) ==
    IF ~ RoiIntersects(a, b) THEN Roi(<<0, 0>>, <<0, 0>>)
    ELSE LET begin == [d \in DimSet |-> Max(RoiBegin(a)[d], RoiBegin(b)[d])]
             end == [d \in DimSet |-> Min(RoiEnd(a)[d], RoiEnd(b)[d])]
         IN  Roi(begin, [d \in DimSet |-> end[d] - begin[d]])

\* roi - coordinate
RoiShift(r, by) == Roi([d \in DimSet |-> r.offset[d] - by[d]], r.shape)

\* Roi.to_slices: per dimension, slice(begin, end)
to_slices(r) == [d \in DimSet |-> <<RoiBegin(r)[d], RoiEnd(r)[d]>>]

\* the indices slice(lo, hi) selects on an axis of length n
SliceIndices(sl, n) == {k \in 0..(n - 1) : sl[1] <= k /\ k < sl[2]}

\* the k-th (zero-based) member of a set of integers, in increasing order
Nth(S, k) == CHOOSE m \in S : Cardinality({y \in S : y < m}) = k

\* what get_x_hat yields when an exception ends it
Error == NoPatch

\* the assertions without the one on B_logits
ShapesAssertedNoB(H, W, B) == NDim(H) = 2 /\ NDim(W) = 2

\* lines 59-61: the three assertions on the number of dimensions
ShapesAsserted(H, W, B) == NDim(H) = 2 /\ NDim(W) = 2 /\ NDim(B) = 2

\* lines 123-130: the component's own contribution over its bounding box,
\* a patch indexed by (frame position, row, column)
OwnXHat(H, W, B, cd, frames) ==
    LET i == cd.index
        bb_i == cd.bounding_box
        h == bb_i.shape[1]
        w == bb_i.shape[2]
    IN  IF H.shape[2] # h * w THEN Error
        ELSE [idx \in (0..(Len(frames) - 1)) \X (0..(h - 1)) \X (0..(w - 1)) |->
                 sigmoid(Get2(W, i, frames[idx[1] + 1]))
                     * sigmoid(Get2(H, i, idx[2] * w + idx[3]))
                 + 10 * sigmoid(Get2(B, i, idx[2] * w + idx[3]))]

\* lines 134-152: one overlapping component added into the patch.  H and B
\* are reshaped with bb_i.shape; an out-of-range slice is cut to the axis; the
\* update is broadcast to the slice of x_hat, and an update that is empty or
\* that cannot be broadcast raises.
AddOverlap(xh, H, W, B, cd, overlap, frames) ==
    LET bb_i == cd.bounding_box
        j == overlap.index
        bb_j == overlap.bounding_box
        intersection == RoiIntersect(bb_i, bb_j)
        slices_i == to_slices(RoiShift(intersection, RoiBegin(bb_i)))
        slices_j == to_slices(RoiShift(intersection, RoiBegin(bb_j)))
        H3 == Reshape(H, bb_i.shape)
        B3 == Reshape(B, bb_i.shape)
        rows == SliceIndices(slices_j[1], H3.shape[2])
        cols == SliceIndices(slices_j[2], H3.shape[3])
        nr == slices_i[1][2] - slices_i[1][1]
        nc == slices_i[2][2] - slices_i[2][1]
        fits == /\ Cardinality(rows) \in {1, nr}
                /\ Cardinality(cols) \in {1, nc}
        \* the update at position (a, b) of the slice, after broadcasting
        r(a) == Nth(rows, IF Cardinality(rows) = nr THEN a ELSE 0)
        c(b) == Nth(cols, IF Cardinality(cols) = nc THEN b ELSE 0)
        update(f, a, b) ==
            sigmoid(Get2(W, j, frames[f + 1])) * sigmoid(Get3(H3, j, r(a), c(b)))
            + 10 * sigmoid(Get3(B3, j, r(a), c(b)))
        inside(idx) ==
            /\ slices_i[1][1] <= idx[2] /\ idx[2] < slices_i[1][2]
            /\ slices_i[2][1] <= idx[3] /\ idx[3] < slices_i[2][2]
    IN  IF rows = {} \/ cols = {} \/ ~ fits THEN Error
        ELSE [idx \in DOMAIN xh |->
                 IF inside(idx)
                 THEN xh[idx] + update(idx[1], idx[2] - slices_i[1][1],
                                       idx[3] - slices_i[2][1])
                 ELSE xh[idx]]

\* the loop of lines 132-152 from the n-th overlapping component on
RECURSIVE AddOverlaps(_, _, _, _, _, _, _, _)
AddOverlaps(xh, H, W, B, cd, comps, frames, n) ==
    IF xh = Error \/ n > Len(cd.overlapping_components) THEN xh
    ELSE AddOverlaps(
             AddOverlap(xh, H, W, B, cd, comps[cd.overlapping_components[n]], frames),
             H, W, B, cd, comps, frames, n + 1)

\* get_x_hat
get_x_hat(H, W, B, cd, comps, frames) ==
    AddOverlaps(OwnXHat(H, W, B, cd, frames), H, W, B, cd, comps, frames, 1)

\* the largest r with r * r <= n, between lo and hi
RECURSIVE ISqrt(_, _, _)
ISqrt(n, lo, hi) ==
    IF lo >= hi THEN lo
    ELSE LET mid == (lo + hi + 1) \div 2
         IN  IF mid * mid <= n THEN ISqrt(n, mid, hi) ELSE ISqrt(n, lo, mid - 1)

Abs(v) == IF v < 0 THEN -v ELSE v

RECURSIVE SumOver(_, _)
SumOver(f, S) ==
    IF S = {} THEN 0
    ELSE LET e == CHOOSE e \in S : TRUE IN f[e] + SumOver(f, S \ {e})

\* jnp.linalg.norm(a): the 2-norm of the flattened array, rounded down
Norm2(a) == ISqrt(SumOver([e \in DOMAIN a |-> a[e] * a[e]], DOMAIN a), 0, 46340)

\* jnp.linalg.norm(a, ord=1) of a vector: the sum of the absolute values
Norm1Vector(a) == SumOver([e \in DOMAIN a |-> Abs(a[e])], DOMAIN a)

\* jnp.linalg.norm(a, ord=1) of a matrix indexed by (row, column): the
\* largest column sum of absolute values
Norm1Matrix(a) ==
    LET colsum(cc) == SumOver([e \in {d \in DOMAIN a : d[2] = cc} |-> Abs(a[e])],
                              {d \in DOMAIN a : d[2] = cc})
        sums == {colsum(e[2]) : e \in DOMAIN a}
    IN  CHOOSE m \in sums : \A n \in sums : n <= m

\* lines 73-84: the l1 term, in tenths
l1_term(H, W, cd, frames, comps_ref, traces_ref) ==
    IF comps_ref # NoArray /\ traces_ref # NoArray
    THEN LET i == cd.index
             bb_i == cd.bounding_box
             w == bb_i.shape[2]
             dc == [e \in (0..(bb_i.shape[1] - 1)) \X (0..(w - 1)) |->
                       Get3(comps_ref, i, e[1], e[2])
                       - sigmoid(Get2(H, i, e[1] * w + e[2]))]
             dt == [f \in 0..(Len(frames) - 1) |->
                       Get2(traces_ref, i, frames[f + 1])
                       - sigmoid(Get2(W, i, frames[f + 1]))]
         IN  Norm1Matrix(dc) + Norm1Vector(dt)
    ELSE 0

\* l2_loss that leaves the weight out
l2_loss_unweighted(H, W, B, xx, xh, cd, frames, weight, comps_ref, traces_ref) ==
    Norm2([e \in DOMAIN xh |-> xx[e] - xh[e]])
    + 10 * l1_term(H, W, cd, frames, comps_ref, traces_ref)

\* lines 71-86: l2_loss + l1_weight * l1_loss, in hundredths
l2_loss(H, W, B, xx, xh, cd, frames, weight, comps_ref, traces_ref) ==
    Norm2([e \in DOMAIN xh |-> xx[e] - xh[e]])
    + weight * 10 * l1_term(H, W, cd, frames, comps_ref, traces_ref)

(***************************************************************************)
(* The inputs.                                                             *)
(***************************************************************************)
\* extents along x: short ones anywhere, long ones from the origin, and the
\* degenerate (zero) extent at the origin
XExtents ==
    {<<b, s>> \in (0..MaxCoord) \X (0..MaxCoord) :
        /\ b + s <= MaxCoord
        /\ \/ (s >= 1 /\ s <= MaxSmall)
           \/ b = 0}

\* the boxes of a dataset: one row high on row 0, a column across both rows,
\* and the whole of row 1
Boxes ==
    {Roi(<<e[1], 0>>, <<e[2], 1>>) : e \in XExtents}
    \cup {Roi(<<0, 0>>, <<1, 2>>), Roi(<<0, 1>>, <<MaxCoord, 1>>)}

\* the sequences of at most n members of S
SeqsUpTo(S, n) == UNION {[1..m -> S] : m \in 0..n}

\* datasets for the loss: boxes of six cells each, since H and B hold one row
\* of the same length per component
Layouts ==
    { \* the same shape, a partial overlap
      <<Roi(<<0, 0>>, <<2, 3>>), Roi(<<1, 1>>, <<2, 3>>)>>,
      \* no overlap
      <<Roi(<<0, 0>>, <<2, 3>>), Roi(<<4, 4>>, <<2, 3>>)>>,
      \* different shapes
      <<Roi(<<0, 0>>, <<2, 3>>), Roi(<<0, 1>>, <<3, 2>>)>>,
      <<Roi(<<1, 0>>, <<2, 3>>), Roi(<<0, 0>>, <<3, 2>>)>>,
      <<Roi(<<0, 0>>, <<1, 6>>), Roi(<<0, 4>>, <<2, 3>>)>>,
      \* two neighbours of the same shape
      <<Roi(<<1, 1>>, <<2, 3>>), Roi(<<0, 0>>, <<2, 3>>), Roi(<<2, 3>>, <<2, 3>>)>> }

\* the number of time frames of W
NumFrames == 2
\* l1_weight is one of 0..MaxL1Weight
MaxL1Weight == 2

\* logits in -2..2, element n being (a * n + s) mod 5 - 2
Logits(shape, a, s) ==
    Array(shape, [n \in 0..(Product(shape) - 1) |-> ((a * n + s) % 5) - 2])

\* reference values in tenths
Reference(shape, s) ==
    Array(shape, [n \in 0..(Product(shape) - 1) |-> (3 * n + s) % 11])

\* an array of k rows of n entries with 1, 2 or 3 dimensions
ShapeOf(ndim, k, n) ==
    CASE ndim = 1 -> <<k * n>>
      [] ndim = 2 -> <<k, n>>
      [] ndim = 3 -> <<k, n, 1>>

\* the batches of frame indices: one frame or two
FrameLists ==
    {<<f>> : f \in 0..(NumFrames - 1)}
    \cup {<<f, g>> : f \in 0..(NumFrames - 1), g \in 0..(NumFrames - 1)}

\* the observed patches tried: the reconstruction itself, the reconstruction
\* off by a little, and a dark patch
Observations(H, W, B, cd, comps, frames) ==
    LET xh == get_x_hat(H, W, B, cd, comps, frames)
        own == OwnXHat(H, W, B, cd, frames)
    IN  IF NDim(H) # 2 \/ NDim(W) # 2 \/ NDim(B) # 2 THEN {NoPatch}
        ELSE IF xh = Error THEN {[e \in DOMAIN own |-> 0]}
        ELSE {xh,
              [e \in DOMAIN xh |-> IF e[2] = 0 THEN xh[e] + 3 ELSE xh[e] - 4],
              [e \in DOMAIN xh |-> 0]}

(***************************************************************************)
(* get_groups, step by step.                                               *)
(***************************************************************************)
Init ==
    /\ bounding_boxes \in SeqsUpTo(Boxes, MaxN)
    /\ component_descriptions = None
    /\ G = None
    /\ groups = None
    /\ component_group_index_pairings = None
    /\ pc = "start"
    /\ err = None
    /\ H_logits = NoArray /\ W_logits = NoArray /\ B_logits = NoArray
    /\ x = NoPatch /\ component_description = None /\ frame_indices = << >>
    /\ l1_weight = None /\ components = NoArray /\ traces = NoArray
    /\ x_hat = NoPatch /\ loss = None /\ lpc = "idle" /\ lerr = None

\* groups.py line 21 / preprocess.py create_components.  spatial.KDTree
\* refuses an empty list of points (the data must be of shape (n, m)).
CreateComponents ==
    /\ pc = "start"
    /\ IF Len(bounding_boxes) = 0
       THEN /\ pc' = "error"
            /\ err' = "ValueError"
            /\ UNCHANGED component_descriptions
       ELSE /\ component_descriptions' = create_components(bounding_boxes)
            /\ pc' = "created"
            /\ UNCHANGED err
    /\ UNCHANGED <<bounding_boxes, G, groups, component_group_index_pairings>>
    /\ UNCHANGED lossVars

\* groups.py lines 23-43: the graph, its connected components in the order
\* they are found, and the group index of every component
GetGroups ==
    /\ pc = "created"
    /\ G' = BuildGraph(component_descriptions)
    /\ groups' = connected_components(G', 0, {})
    /\ component_group_index_pairings' = GroupIndexPairings(groups')
    /\ pc' = "done"
    /\ UNCHANGED <<bounding_boxes, component_descriptions, err>>
    /\ UNCHANGED lossVars

Next == CreateComponents \/ GetGroups

Spec == Init /\ [][Next]_vars

(***************************************************************************)
(* l2_loss, step by step, on the components of a layout.                   *)
(***************************************************************************)
InitLoss ==
    /\ bounding_boxes \in Layouts
    /\ component_descriptions = create_components(bounding_boxes)
    /\ G = None
    /\ groups = None
    /\ component_group_index_pairings = None
    /\ pc = "created"
    /\ err = None
    /\ component_description \in DOMAIN component_descriptions
    /\ \E hd \in 1..3, wd \in 1..3, bd \in 1..3 :
         LET k == Len(bounding_boxes)
             cells == RoiSize(bounding_boxes[1])
         IN  /\ H_logits \in {Logits(ShapeOf(hd, k, cells), a, 0) : a \in {1, 2}}
             /\ W_logits \in {Logits(ShapeOf(wd, k, NumFrames), 1, s) : s \in {0, 3}}
             /\ B_logits = Logits(ShapeOf(bd, k, cells), 3, 1)
    /\ frame_indices \in FrameLists
    /\ l1_weight \in 0..MaxL1Weight
    /\ LET k == Len(bounding_boxes)
           bb == component_descriptions[component_description].bounding_box
       IN  /\ components \in {NoArray, Reference(<<k>> \o bb.shape, 2)}
           /\ traces \in {NoArray, Reference(<<k, NumFrames>>, 1)}
    /\ x \in Observations(H_logits, W_logits, B_logits,
                           component_descriptions[component_description],
                           component_descriptions, frame_indices)
    /\ x_hat = NoPatch /\ loss = None /\ lpc = "start" /\ lerr = None

\* lines 59-61
CheckShapes ==
    /\ lpc = "start"
    /\ IF ShapesAsserted(H_logits, W_logits, B_logits)
       THEN lpc' = "checked" /\ UNCHANGED lerr
       ELSE lpc' = "failed" /\ lerr' = "AssertionError"
    /\ UNCHANGED <<H_logits, W_logits, B_logits, x, component_description,
                   frame_indices, l1_weight, components, traces, x_hat, loss>>
    /\ UNCHANGED groupVars

\* lines 63-69
ComputeXHat ==
    /\ lpc = "checked"
    /\ LET xh == get_x_hat(H_logits, W_logits, B_logits,
                           component_descriptions[component_description],
                           component_descriptions, frame_indices)
       IN  IF xh = Error
           THEN lpc' = "failed" /\ lerr' = "ShapeMismatch" /\ UNCHANGED x_hat
           ELSE lpc' = "reconstructed" /\ x_hat' = xh /\ UNCHANGED lerr
    /\ UNCHANGED <<H_logits, W_logits, B_logits, x, component_description,
                   frame_indices, l1_weight, components, traces, loss>>
    /\ UNCHANGED groupVars

\* lines 71-86
ComputeLoss ==
    /\ lpc = "reconstructed"
    /\ loss' = l2_loss(H_logits, W_logits, B_logits, x, x_hat,
                       component_descriptions[component_description],
                       frame_indices, l1_weight, components, traces)
    /\ lpc' = "done"
    /\ UNCHANGED <<H_logits, W_logits, B_logits, x, component_description,
                   frame_indices, l1_weight, components, traces, x_hat, lerr>>
    /\ UNCHANGED groupVars

NextLoss == CheckShapes \/ ComputeXHat \/ ComputeLoss

SpecLoss == InitLoss /\ [][NextLoss]_vars

(***************************************************************************)
(* The claims.                                                             *)
(***************************************************************************)
N == Len(bounding_boxes)

Sources == 0..(N - 1)

Box(i) == bounding_boxes[i + 1]

\* the two boxes share a nonzero volume: in every dimension the later begin
\* lies before the earlier end
SharesVolume(a, b) ==
    \A d \in DimSet :
        Max(a.offset[d], b.offset[d])
            < Min(a.offset[d] + a.shape[d], b.offset[d] + b.shape[d])

Degenerate(b) == \E d \in DimSet : b.shape[d] <= 0

Overlaps(i) == SeqToSet(component_descriptions[i].overlapping_components)

Created == pc \in {"created", "done"}

\* the sources a chain of volume-sharing boxes links to those of S
RECURSIVE Chained(_)
Chained(S) ==
    LET T == S \cup {j \in Sources : \E i \in S : SharesVolume(Box(i), Box(j))}
    IN  IF T = S THEN S ELSE Chained(T)

GroupsOf(i) == {g \in DOMAIN groups : i \in groups[g]}

MinOf(S) == CHOOSE m \in S : \A n \in S : m <= n

\* C1: after create_components the overlap relation is symmetric: B is in
\* A.overlapping_components if and only if A is in B.overlapping_components.
C1_Symmetric ==
    Created => \A a \in Sources, b \in Sources :
                   (b \in Overlaps(a)) <=> (a \in Overlaps(b))

\* C2: find_overlapping_components returns, for every source s, exactly the
\* other sources whose box shares a nonzero volume with the box of s.
C2_ExactOverlaps ==
    Created => \A s \in Sources :
                   Overlaps(s) = {o \in Sources \ {s} : SharesVolume(Box(s), Box(o))}

\* C3: the groups are the connected components of the geometric intersection
\* relation: two sources are in one group if and only if a chain of sources
\* with pairwise intersecting boxes links them.
C3_GroupsAreChains ==
    pc = "done" =>
        /\ \A i \in Sources :
               LET chain == Chained({i})
                   own == GroupsOf(i)
               IN  \A j \in Sources : (own \cap GroupsOf(j) # {}) <=> (j \in chain)
        /\ \A g \in DOMAIN groups : Chained(groups[g]) = groups[g]

\* C3, its case: three sources in one group, where the first does not list
\* the second although their boxes intersect, and the first and the third are
\* linked only through the second
C3_Witness ==
    /\ pc = "done"
    /\ N = 3
    /\ Len(groups) = 1
    /\ SharesVolume(Box(0), Box(1)) /\ 1 \notin Overlaps(0)
    /\ SharesVolume(Box(1), Box(2))
    /\ ~ SharesVolume(Box(0), Box(2))

\* C4: the groups partition the indices 0..N-1: every index is in exactly one
\* group, and a source whose box intersects no other is a group of its own.
C4_Partition ==
    pc = "done" =>
        /\ \A i \in Sources : Cardinality(GroupsOf(i)) = 1
        /\ UNION SeqToSet(groups) = Sources
        /\ \A g \in DOMAIN groups : groups[g] # {}
        /\ \A i \in Sources :
               (\A j \in Sources \ {i} : ~ SharesVolume(Box(i), Box(j)))
                   => \E g \in DOMAIN groups : groups[g] = {i}

\* C4, its case: three sources, two of them in one group and an isolated one
C4_Witness ==
    /\ pc = "done"
    /\ N = 3
    /\ \E g \in DOMAIN groups, h \in DOMAIN groups :
           Cardinality(groups[g]) = 2 /\ Cardinality(groups[h]) = 1

\* C5: index_to_group[s.index] is the position of the group of s, and that
\* position is the number of groups whose smallest member is lower than the
\* smallest member of the group of s.
C5_DiscoveryOrder ==
    pc = "done" =>
        /\ DOMAIN component_group_index_pairings = Sources
        /\ \A i \in Sources :
               \E g \in DOMAIN groups :
                   /\ i \in groups[g]
                   /\ component_group_index_pairings[i] = g - 1
                   /\ g - 1 = Cardinality({h \in DOMAIN groups :
                                  MinOf(groups[h]) < MinOf(groups[g])})

\* C5, its case: A and B overlap, C is isolated: {A: 0, B: 0, C: 1}
C5_Witness ==
    /\ pc = "done"
    /\ N = 3
    /\ SharesVolume(Box(0), Box(1))
    /\ component_group_index_pairings[0] = 0
    /\ component_group_index_pairings[1] = 0
    /\ component_group_index_pairings[2] = 1

\* the reconstruction C6 describes: the component's own contribution at every
\* position, plus, for each listed neighbour whose box holds the position's
\* absolute coordinate, the neighbour's contribution at that coordinate in the
\* neighbour's own frame (its begin, its shape)
ContributionAt(c, f, abs) ==
    LET p == (abs[1] - c.bounding_box.offset[1]) * c.bounding_box.shape[2]
             + (abs[2] - c.bounding_box.offset[2])
    IN  sigmoid(Get2(W_logits, c.index, frame_indices[f + 1]))
            * sigmoid(Get2(H_logits, c.index, p))
        + 10 * sigmoid(Get2(B_logits, c.index, p))

Holds(c, abs) ==
    \A d \in DimSet :
        /\ c.bounding_box.offset[d] <= abs[d]
        /\ abs[d] < c.bounding_box.offset[d] + c.bounding_box.shape[d]

RECURSIVE NeighbourSum(_, _, _, _)
NeighbourSum(cd, f, abs, n) ==
    IF n > Len(cd.overlapping_components) THEN 0
    ELSE LET c == component_descriptions[cd.overlapping_components[n]]
         IN  (IF Holds(c, abs) THEN ContributionAt(c, f, abs) ELSE 0)
             + NeighbourSum(cd, f, abs, n + 1)

ExpectedXHat ==
    LET cd == component_descriptions[component_description]
        bb == cd.bounding_box
    IN  [idx \in (0..(Len(frame_indices) - 1)) \X (0..(bb.shape[1] - 1))
                    \X (0..(bb.shape[2] - 1)) |->
            LET abs == <<bb.offset[1] + idx[2], bb.offset[2] + idx[3]>>
            IN  ContributionAt(cd, idx[1], abs) + NeighbourSum(cd, idx[1], abs, 1)]

\* C6: the patch get_x_hat yields holds, at every position, the target's
\* contribution plus that of every listed neighbour whose box holds the
\* position, read in the neighbour's own frame; also when the neighbour's
\* shape differs from the target's.
C6_Reconstruction ==
    lpc \in {"reconstructed", "done"} => x_hat = ExpectedXHat

BadShape == NDim(H_logits) # 2 \/ NDim(W_logits) # 2 \/ NDim(B_logits) # 2

\* C7, as claimed: when H, W or B does not have exactly two dimensions, the
\* call fails with a ShapeError before any reconstruction is computed.
C7_ShapeError ==
    (BadShape /\ lpc # "start") =>
        lpc = "failed" /\ lerr = "ShapeError" /\ x_hat = NoPatch

\* C7, amended: when H, W or B does not have exactly two dimensions, the call
\* fails with an AssertionError before any reconstruction is computed.
C7_AssertionError ==
    (BadShape /\ lpc # "start") =>
        lpc = "failed" /\ lerr = "AssertionError" /\ x_hat = NoPatch

\* C7, its case: only B has the wrong number of dimensions, and the call failed
C7_Witness ==
    /\ lpc = "failed"
    /\ NDim(H_logits) = 2 /\ NDim(W_logits) = 2 /\ NDim(B_logits) = 3
    /\ lerr = "AssertionError"

\* C8: a box with zero or negative extent is rejected with a
\* DegenerateRegionError; no source with such a box reaches the overlap
\* lists or the groups.
C8_DegenerateRejected ==
    (pc # "start" /\ \E i \in Sources : Degenerate(Box(i))) =>
        pc = "error" /\ err = "DegenerateRegionError"

\* C9: for N = 0 and N = 1 the index is built and the grouping succeeds: no
\* sources give an empty mapping and no groups; one source gives an empty
\* overlap list and one group holding it.
C9_EmptyAndSingle ==
    N <= 1 =>
        /\ pc # "error"
        /\ (Created /\ N = 1) => Overlaps(0) = {}
        /\ pc = "done" =>
               /\ DOMAIN component_group_index_pairings = Sources
               /\ groups = IF N = 0 THEN << >> ELSE <<{0}>>

\* the l1 term of C10, from the references: zero unless both are given
C10_L1 ==
    IF components = NoArray \/ traces = NoArray THEN 0
    ELSE LET cd == component_descriptions[component_description]
             h == cd.bounding_box.shape[1]
             w == cd.bounding_box.shape[2]
             col(c) == SumOver(
                 [r \in 0..(h - 1) |->
                     Abs(Get3(components, cd.index, r, c)
                         - sigmoid(Get2(H_logits, cd.index, r * w + c)))],
                 0..(h - 1))
             cols == {col(c) : c \in 0..(w - 1)}
             trace == SumOver(
                 [f \in 1..Len(frame_indices) |->
                     Abs(Get2(traces, cd.index, frame_indices[f])
                         - sigmoid(Get2(W_logits, cd.index, frame_indices[f])))],
                 1..Len(frame_indices))
         IN  (CHOOSE m \in cols : \A n \in cols : n <= m) + trace

\* C10: l2_loss returns l2 + l1_weight * l1, l1 being 0 unless both references
\* are given; so with the observed patch equal to the reconstruction the loss
\* is l1_weight * l1, and without references it is the l2 term for every
\* l1_weight.
C10_LossValue ==
    lpc = "done" =>
        LET l2 == Norm2([e \in DOMAIN x_hat |-> x[e] - x_hat[e]])
        IN  /\ loss = l2 + l1_weight * 10 * C10_L1
            /\ x = x_hat => loss = l1_weight * 10 * C10_L1
            /\ (components = NoArray \/ traces = NoArray) => loss = l2

\* C10, its case: the observed patch is the reconstruction, both references
\* are given and weighted, and the loss is the weighted l1 term
C10_Witness ==
    /\ lpc = "done"
    /\ x = x_hat
    /\ components # NoArray /\ traces # NoArray
    /\ l1_weight = 2
    /\ loss > 0

====
